---- MODULE Spec2Model ----
(***************************************************************************)
(* Model of the apartment matching engine of 0cwa/ZuhausProto              *)
(* (src/server/matching.ts, class MatchingEngine).                         *)
(*                                                                         *)
(* Conventions                                                             *)
(*  - Money (bidAmount, the *Worth penalties) is counted in units of 100.  *)
(*  - An optional field of the schema is a sequence: <<>> when the field   *)
(*    is undefined, <<v>> when it holds v; a [min, max] tuple is <<a, b>>. *)
(*  - Objects are referred to by their id: a person of the input list has  *)
(*    the id of its position (ids are unique keys of the people Map), an   *)
(*    apartment has the id index+1 the CSV loader gives it.                *)
(*  - A JavaScript number that results from a division is kept as an exact *)
(*    fraction [num, den]; IEEE rounding is not modelled.                  *)
(***************************************************************************)
EXTENDS Integers, Sequences, FiniteSets, TLC

\* ---------------------------------------------------------------- bounds
MaxPeople == 3
MaxApts == 2
MaxRequests == 3
MaxValue == 3
MaxStored == 2
MaxPersonId == 5

\* hard iteration cap of the while loop of runMatching
MaxIterations == 100

\* ----------------------------------------------------------- generic helpers
Range(s) == {s[i] : i \in 1..Len(s)}

RECURSIVE SumSeq(_)
SumSeq(s) == IF Len(s) = 0 THEN 0 ELSE s[1] + SumSeq(Tail(s))

\* (A loop over a list that may be long is evaluated by halves, first the
\* first half and then the second half on its outcome: this is the loop
\* from the first to the last element, with a shallow evaluation stack.
\* Where the loop carries a value along, the second half is written as the
\* one element of {second(left) : left \in {first}}, which makes TLC
\* evaluate the first half before it enters the second.)
RECURSIVE Flatten(_)
Flatten(ss) ==
  IF Len(ss) = 0 THEN <<>>
  ELSE IF Len(ss) = 1 THEN ss[1]
  ELSE Flatten(SubSeq(ss, 1, Len(ss) \div 2))
         \o Flatten(SubSeq(ss, Len(ss) \div 2 + 1, Len(ss)))

\* `x || 0` on an optional number
OrZero(opt) == IF Len(opt) = 0 THEN 0 ELSE opt[1]

\* exact fractions
Rat(n, d) == [num |-> n, den |-> d]
RatAdd(a, b) == Rat(a.num * b.den + b.num * a.den, a.den * b.den)
RatEq(a, b) == a.num * b.den = b.num * a.den
RatLeq(a, b) == a.num * b.den <= b.num * a.den
RatGt(a, b) == a.num * b.den > b.num * a.den

RECURSIVE RatSum(_)
RatSum(s) == IF Len(s) = 0 THEN Rat(0, 1) ELSE RatAdd(s[1], RatSum(Tail(s)))

\* Array.prototype.sort with comparator (a, b) => key(b) - key(a): a stable
\* sort in descending key order.  Before(i, j) says that element i has a
\* strictly greater key than element j.
\* (Values used more than once are passed as operator arguments throughout
\* the module, because TLC evaluates an argument once.)
PlaceByRank(s, rank) ==
  [k \in 1..Len(s) |-> s[CHOOSE i \in 1..Len(s) : rank[i] = k]]

StableSortDesc(s, Before(_, _)) ==
  PlaceByRank(s, [i \in 1..Len(s) |->
                    Cardinality({j \in 1..Len(s) :
                                   Before(s[j], s[i])
                                   \/ (j < i /\ ~Before(s[i], s[j]))}) + 1])

\* floor of the square root, exact on perfect squares
RECURSIVE SqrtSearch(_, _, _)
SqrtSearch(n, lo, hi) ==
  IF lo >= hi THEN lo
  ELSE LET mid == (lo + hi + 1) \div 2
       IN IF mid * mid <= n THEN SqrtSearch(n, mid, hi)
          ELSE SqrtSearch(n, lo, mid - 1)

Sqrt(n) == SqrtSearch(n, 0, 46340)

\* ------------------------------------------------------------- input data
\* PersonPreferences (src/shared/schema.ts): a profile without constraints.
BasePrefs ==
  [sqMeters |-> <<0, 500>>, sqMetersWorth |-> <<>>,
   numWindows |-> <<0, 20>>, numWindowsWorth |-> <<>>,
   windowDirections |-> <<>>, windowDirectionsWorth |-> <<>>,
   totalWindowSize |-> <<0, 100>>, totalWindowSizeWorth |-> <<>>,
   numBedrooms |-> <<0, 10>>, numBedroomsWorth |-> <<>>,
   numBathrooms |-> <<0, 10>>, numBathroomsWorth |-> <<>>,
   hasDishwasher |-> FALSE, dishwasherWorth |-> <<>>,
   hasWasher |-> FALSE, washerWorth |-> <<>>,
   hasDryer |-> FALSE, dryerWorth |-> <<>>,
   bidAmount |-> 0,
   maxRoommates |-> <<>>,
   cleanliness |-> <<>>, quietness |-> <<>>, guests |-> <<>>,
   personalSpace |-> <<>>, sleepTime |-> <<>>, wakeTime |-> <<>>]

\* Person (src/shared/schema.ts) without its id, which is its position in
\* the input list.
PersonOf(nm, allow, prefs) ==
  [name |-> nm, allowRoommates |-> allow, preferences |-> prefs,
   assignedRoom |-> <<>>, requiredPayment |-> <<>>]

\* Ann: ceiling 1000, wants 50..100 sq. meters (worth 100), one roommate.
Ann == PersonOf("Ann", TRUE,
         [BasePrefs EXCEPT !.bidAmount = 10, !.sqMeters = <<50, 100>>,
                           !.sqMetersWorth = <<1>>, !.maxRoommates = <<1>>,
                           !.cleanliness = <<50>>])
\* Bob: ceiling 800, no constraints, up to two roommates.
Bob == PersonOf("Bob", TRUE,
         [BasePrefs EXCEPT !.bidAmount = 8, !.maxRoommates = <<2>>,
                           !.cleanliness = <<60>>])
\* Cat: ceiling 500, lives alone.
Cat == PersonOf("Cat", FALSE,
         [BasePrefs EXCEPT !.bidAmount = 5])
\* Dan: ceiling 300, wants a dishwasher worth 400, up to two roommates.
Dan == PersonOf("Dan", TRUE,
         [BasePrefs EXCEPT !.bidAmount = 3, !.hasDishwasher = TRUE,
                           !.dishwasherWorth = <<4>>, !.maxRoommates = <<2>>,
                           !.cleanliness = <<90>>])
\* Eve: ceiling 600, wants a window to the north.
Eve == PersonOf("Eve", TRUE,
         [BasePrefs EXCEPT !.bidAmount = 6, !.windowDirections = <<"N">>,
                           !.windowDirectionsWorth = <<1>>,
                           !.maxRoommates = <<1>>, !.cleanliness = <<55>>])
\* Fay: ceiling 500, wants at most 100 sq. meters (worth 500), up to two
\* roommates.
Fay == PersonOf("Fay", TRUE,
         [BasePrefs EXCEPT !.bidAmount = 5, !.sqMeters = <<0, 100>>,
                           !.sqMetersWorth = <<5>>, !.maxRoommates = <<2>>,
                           !.cleanliness = <<70>>])

\* the value null: the record that has no field of the schema
Null == [null |-> TRUE]
IsNull(v) == DOMAIN v = {"null"}

\* Gus: a row of people.csv whose preferences column decodes to the JSON
\* text null
Gus == PersonOf("Gus", TRUE, Null)

PersonPool == {Ann, Bob, Cat, Dan, Eve, Fay, Gus}

\* Apartment (src/shared/schema.ts) without its id.
AptOf(nm, sqm, beds, dish, ten, allow) ==
  [name |-> nm, sqMeters |-> sqm, numWindows |-> 2,
   windowDirections |-> <<"N", "E">>, totalWindowSize |-> 10,
   numBedrooms |-> beds, numBathrooms |-> 1,
   hasDishwasher |-> dish, hasWasher |-> FALSE, hasDryer |-> FALSE,
   tenants |-> ten, allowRoommates |-> allow]

Loft == AptOf("Loft", 120, 2, FALSE, 0, TRUE)
Studio == AptOf("Studio", 80, 1, TRUE, 0, FALSE)
House == AptOf("House", 60, 3, TRUE, 1, TRUE)
Annex == AptOf("Annex", 90, 2, TRUE, 0, FALSE)

AptPool == {Loft, Studio, House, Annex}

\* all lists of at most n elements of S
SeqsUpTo(S, n) == UNION {[1..k -> S] : k \in 0..n}

\* all lists of at most n distinct elements of S
DistinctSeqsUpTo(S, n) ==
  {l \in SeqsUpTo(S, n) : \A i \in 1..Len(l) : \A j \in 1..Len(l) : i # j => l[i] # l[j]}

\* the id the store gives the element at position i
WithIds(list) == [i \in 1..Len(list) |-> [id |-> i] @@ list[i]]

\* ------------------------------------------------------------------ state
VARIABLES
  people,                      \* argument people of runMatching
  apartments,                  \* argument apartments of runMatching
  unassignedPeople,            \* ids of the people still unassigned, in order
  availableApartments,         \* ids of the apartments still available
  assignmentsLog,              \* one entry per assigned person
  iterationCount,
  bidsForApartments,           \* of the latest iteration: apt id -> sorted bids
  bestAptToConsiderThisRound,  \* of the latest iteration: apt id, 0 for null
  paymentsForWinningGroup,     \* of the latest iteration: person id -> payment
  lastStep,                    \* how the latest iteration ended
  results,                     \* the MatchingResult list returned
  warnings,                    \* the messages written with console.warn
  storePeople,                 \* MemStorage.people: the values, in insertion order
  currentPersonId,             \* MemStorage.currentPersonId
  submits,                     \* the submit-preferences handlers, by arrival
  responses,                   \* the HTTP responses sent, in order
  storeApartments,             \* MemStorage.apartments: the values, in order
  matchingResults,             \* MemStorage.matchingResults
  returned,                    \* <<v>> once the function under study returned v
  pc                           \* "idle" when runMatching is not called, else
                               \* "start", "loop", "convert", "done" or "failed"

engineVars == <<people, apartments, unassignedPeople, availableApartments,
                assignmentsLog, iterationCount, bidsForApartments,
                bestAptToConsiderThisRound, paymentsForWinningGroup, lastStep,
                results, warnings, pc>>

adminVars == <<storeApartments, matchingResults>>

storeVars == <<storePeople, currentPersonId, submits, responses, adminVars>>

vars == <<engineVars, storeVars, returned>>

\* ------------------------------------------------- preparePersonForMatching
\* Scale of the social vector: a component v / normFactor is kept as the
\* integer 14400 * v / normFactor (14400 = lcm(100, 2 * 1440)).
SocialScale == 14400

\* socialVector of a person, in the key order of SOCIAL_PREF_KEY_NORMS
preparePersonForMatching(person) ==
  LET prefs == person.preferences
      sleepTimeRange == IF Len(prefs.sleepTime) = 0 THEN <<0, 0>> ELSE prefs.sleepTime
      wakeTimeRange == IF Len(prefs.wakeTime) = 0 THEN <<0, 0>> ELSE prefs.wakeTime
  IN << 144 * OrZero(prefs.cleanliness),
        144 * OrZero(prefs.quietness),
        144 * OrZero(prefs.guests),
        144 * OrZero(prefs.personalSpace),
        5 * (sleepTimeRange[1] + sleepTimeRange[2]),
        5 * (wakeTimeRange[1] + wakeTimeRange[2]) >>

\* the root of a sum of squares; when at most one term is not zero the root
\* is the absolute value of that term, and the search is not needed
rootOfSquares(diffs, nonZero) ==
  IF Len(nonZero) = 0 THEN 0
  ELSE IF Len(nonZero) = 1
  THEN (IF nonZero[1] < 0 THEN 0 - nonZero[1] ELSE nonZero[1])
  ELSE Sqrt(SumSeq([i \in 1..Len(diffs) |-> diffs[i] * diffs[i]]))

differences(vec1, vec2) == [i \in 1..Len(vec1) |-> vec1[i] - vec2[i]]

nonZeroOf(diffs) == SelectSeq(diffs, LAMBDA d : d # 0)

\* src/server/utils.ts; the pool varies one component only, so that the
\* sum of squares is a perfect square and the root is exact
euclideanDistanceOf(diffs) == rootOfSquares(diffs, nonZeroOf(diffs))

euclideanDistance(vec1, vec2) == euclideanDistanceOf(differences(vec1, vec2))

\* score of two people (ids of the input list), times SocialScale
calculateSocialCompatibility(p1, p2) ==
  0 - euclideanDistance(preparePersonForMatching(people[p1]),
                        preparePersonForMatching(people[p2]))

MaxRoommatesOf(p) == OrZero(people[p].preferences.maxRoommates)

\* ------------------------------------------------- generatePotentialGroups
\* A RoommateGroup is [members: ids in order, compatibility: fraction of
\* SocialScale units, maxSize].

\* all k-element combinations of arr[start..], in backtracking order
RECURSIVE getCombinationsFrom(_, _, _)
getCombinationsFrom(arr, start, k) ==
  IF k = 0 THEN << <<>> >>
  ELSE Flatten([j \in 1..(Len(arr) - start + 1) |->
         LET i == start + j - 1
             sub == getCombinationsFrom(arr, i + 1, k - 1)
         IN [c \in 1..Len(sub) |-> <<arr[i]>> \o sub[c]]])

getCombinations(arr, k) == getCombinationsFrom(arr, 1, k)

\* candidates.sort((a, b) => b.score - a.score), score being the function
\* person id -> score
sortByScore(candidates, score) ==
  StableSortDesc(candidates, LAMBDA a, b : score[a] > score[b])

\* the candidates with their score for pAnchor, sorted descending by score
scoreCandidates(roommateCandidates, pAnchor) ==
  sortByScore(roommateCandidates,
              [p \in Range(roommateCandidates) |->
                 calculateSocialCompatibility(pAnchor, p)])

\* the roommate candidates of pAnchor, sorted descending by score
scoredCandidates(unassigned, pAnchor) ==
  scoreCandidates(SelectSeq(unassigned, LAMBDA p : p # pAnchor), pAnchor)

\* the member lists built from the sorted candidates of pAnchor, in order
combinationsOf(pAnchor, cands) ==
  Flatten([numRoommates \in 1..MaxRoommatesOf(pAnchor) |->
     IF numRoommates > Len(cands) THEN <<>>
     ELSE [c \in 1..Len(getCombinations(cands, numRoommates)) |->
             <<pAnchor>> \o getCombinations(cands, numRoommates)[c]]])

\* the member lists tried for pAnchor after its singleton, in order
anchorCombinations(unassigned, pAnchor) ==
  combinationsOf(pAnchor, scoredCandidates(unassigned, pAnchor))

allAllowRoommates(members) ==
  \A i \in 1..Len(members) : people[members[i]].allowRoommates

\* mutant of allWillingSize: only the anchor is asked
allWillingSizeAnchorOnly(members) ==
  MaxRoommatesOf(members[1]) >= Len(members) - 1

allWillingSize(members) ==
  \A i \in 1..Len(members) : MaxRoommatesOf(members[i]) >= Len(members) - 1

\* sum of the pairwise scores of a member list
totalCompatibility(members) ==
  LET pairs == {<<i, j>> \in (1..Len(members)) \X (1..Len(members)) : i < j}
      RECURSIVE SumPairs(_)
      SumPairs(S) == IF S = {} THEN 0
                     ELSE LET x == CHOOSE x \in S : TRUE
                          IN calculateSocialCompatibility(members[x[1]], members[x[2]])
                               + SumPairs(S \ {x})
  IN SumPairs(pairs)

pairCount(members) == (Len(members) * (Len(members) - 1)) \div 2

\* threshold on the average score, in units of the score itself
compatibilityThreshold == -100

\* reduce((min, p) => Math.min(min, maxRoommates + 1), Infinity)
groupMaxSize(members) ==
  CHOOSE m \in {MaxRoommatesOf(members[i]) + 1 : i \in 1..Len(members)} :
    \A i \in 1..Len(members) : m <= MaxRoommatesOf(members[i]) + 1

\* mutant of groupKey: the ids are not sorted before they are made a key
groupKeyInOrder(members) == members

\* JSON.stringify of the sorted ids: one key per set of ids
groupKey(members) == Range(members)

\* body of the combo loop: acc is [keys, groups]
addScoredCombination(acc, members, total) ==
  IF ~allAllowRoommates(members) \/ ~allWillingSize(members) THEN acc
  ELSE IF total < compatibilityThreshold * SocialScale * pairCount(members)
  THEN acc
  ELSE IF groupKey(members) \in acc.keys THEN acc
  ELSE [keys |-> acc.keys \cup {groupKey(members)},
        groups |-> Append(acc.groups,
                     [members |-> members,
                      compatibility |-> Rat(total, pairCount(members)),
                      maxSize |-> groupMaxSize(members)])]

addCombination(acc, members) ==
  addScoredCombination(acc, members, totalCompatibility(members))

\* mutant of addSingle: the group is added only for a person who allows
\* roommates
addSingleIfAllowed(acc, pAnchor) ==
  IF groupKey(<<pAnchor>>) \in acc.keys \/ ~people[pAnchor].allowRoommates
  THEN acc
  ELSE [keys |-> acc.keys \cup {groupKey(<<pAnchor>>)},
        groups |-> Append(acc.groups,
                     [members |-> <<pAnchor>>,
                      compatibility |-> Rat(100 * SocialScale, 1),
                      maxSize |-> 1])]

\* the group of pAnchor alone
addSingle(acc, pAnchor) ==
  IF groupKey(<<pAnchor>>) \in acc.keys THEN acc
  ELSE [keys |-> acc.keys \cup {groupKey(<<pAnchor>>)},
        groups |-> Append(acc.groups,
                     [members |-> <<pAnchor>>,
                      compatibility |-> Rat(100 * SocialScale, 1),
                      maxSize |-> 1])]

RECURSIVE addCombinations(_, _)
addCombinations(acc, combos) ==
  IF Len(combos) = 0 THEN acc
  ELSE addCombinations(addCombination(acc, combos[1]), Tail(combos))

\* the loop over pAnchor, for the anchors at positions lo..hi
RECURSIVE addAnchors(_, _, _, _)
addAnchors(acc, unassigned, lo, hi) ==
  IF lo > hi THEN acc
  ELSE IF lo = hi
  THEN addCombinations(addSingle(acc, unassigned[lo]),
                       anchorCombinations(unassigned, unassigned[lo]))
  ELSE CHOOSE out \in
         {addAnchors(left, unassigned, (lo + hi) \div 2 + 1, hi) :
            left \in {addAnchors(acc, unassigned, lo, (lo + hi) \div 2)}} :
         TRUE

generatePotentialGroups(unassigned) ==
  StableSortDesc(
    addAnchors([keys |-> {}, groups |-> <<>>], unassigned,
               1, Len(unassigned)).groups,
    LAMBDA a, b : RatGt(a.compatibility, b.compatibility))

\* ----------------------------------------------------- calculateAdjustedBid
\* mutant of checkRange: a value equal to min or to max is penalised too
checkRangeInclusive(value, prefRange, worth) ==
  IF Len(prefRange) = 2 /\ (value <= prefRange[1] \/ value >= prefRange[2])
  THEN OrZero(worth) ELSE 0

\* checkRange: the deduction of one ranged attribute
checkRange(value, prefRange, worth) ==
  IF Len(prefRange) = 2 /\ (value < prefRange[1] \/ value > prefRange[2])
  THEN OrZero(worth) ELSE 0

\* apartment.windowDirections is an array of strings (apartmentSchema, the
\* CSV loader); the code calls .has on it, which an array does not have, so
\* the filter callback throws a TypeError as soon as the person prefers at
\* least one direction.
adjustedBidThrows(person, apartment) ==
  Cardinality(Range(person.preferences.windowDirections)) > 0

\* the number returned when the call does not throw
calculateAdjustedBid(person, apartment) ==
  LET prefs == person.preferences
      deduction ==
          checkRange(apartment.sqMeters, prefs.sqMeters, prefs.sqMetersWorth)
        + checkRange(apartment.numWindows, prefs.numWindows, prefs.numWindowsWorth)
        + checkRange(apartment.totalWindowSize, prefs.totalWindowSize,
                     prefs.totalWindowSizeWorth)
        + checkRange(apartment.numBedrooms, prefs.numBedrooms, prefs.numBedroomsWorth)
        + checkRange(apartment.numBathrooms, prefs.numBathrooms,
                     prefs.numBathroomsWorth)
        + (IF prefs.hasDishwasher /\ ~apartment.hasDishwasher
           THEN OrZero(prefs.dishwasherWorth) ELSE 0)
        + (IF prefs.hasWasher /\ ~apartment.hasWasher
           THEN OrZero(prefs.washerWorth) ELSE 0)
        + (IF prefs.hasDryer /\ ~apartment.hasDryer
           THEN OrZero(prefs.dryerWorth) ELSE 0)
  IN prefs.bidAmount - deduction

\* --------------------------------------------------- runMatching: the bids
\* The loop over the members of a group for one apartment, from member k on.
\* st is [threw, valid, totalGroupBid, individualAdjustedBids].
RECURSIVE bidMembers(_, _, _, _)
bidMembers(st, group, apt, k) ==
  IF k > Len(group.members) THEN st
  ELSE LET personObj == people[group.members[k]]
       IN IF Len(group.members) > 1 /\ ~personObj.allowRoommates
          THEN [st EXCEPT !.valid = FALSE]
          ELSE IF adjustedBidThrows(personObj, apt)
          THEN [st EXCEPT !.threw = TRUE]
          ELSE LET adjBid == calculateAdjustedBid(personObj, apt)
               IN IF adjBid < 0 THEN [st EXCEPT !.valid = FALSE]
                  ELSE bidMembers(
                         [st EXCEPT !.totalGroupBid = @ + adjBid,
                                    !.individualAdjustedBids =
                                       @ @@ (group.members[k] :> adjBid)],
                         group, apt, k + 1)

\* mutant of reachesBid: the apartment is not asked whether it allows
\* roommates
reachesBidAnyApartment(group, apt, unassigned) ==
  /\ \A i \in 1..Len(group.members) : group.members[i] \in Range(unassigned)
  /\ Len(group.members) <= apt.numBedrooms

\* does the body of the group loop reach the member loop for this pair
reachesBid(group, apt, unassigned) ==
  /\ \A i \in 1..Len(group.members) : group.members[i] \in Range(unassigned)
  /\ Len(group.members) <= apt.numBedrooms
  /\ ~(Len(group.members) > 1 /\ ~apt.allowRoommates)

groupBid(group, apt) ==
  bidMembers([threw |-> FALSE, valid |-> TRUE, totalGroupBid |-> 0,
              individualAdjustedBids |-> <<>>], group, apt, 1)

\* outcome of the member loop for every potential group: valid is FALSE
\* for a group that is skipped before the member loop
evaluateGroups(apt, potentialGroups, unassigned) ==
  [i \in 1..Len(potentialGroups) |->
     IF reachesBid(potentialGroups[i], apt, unassigned)
     THEN groupBid(potentialGroups[i], apt)
     ELSE [threw |-> FALSE, valid |-> FALSE, totalGroupBid |-> 0,
           individualAdjustedBids |-> <<>>]]

\* the bid pushed for the group at position i of potentialGroups
bidEvent(apt, group, outcome) ==
  [apartment |-> apt.id,
   bidder |-> group,
   totalGroupBid |-> outcome.totalGroupBid,
   individualAdjustedBids |-> outcome.individualAdjustedBids,
   groupMembersNames |-> [m \in 1..Len(group.members) |->
                            people[group.members[m]].name]]

\* mutant of pushBids: a total of 0 is pushed as well
pushBidsNonNegative(apt, potentialGroups, eval) ==
  LET kept == SelectSeq([i \in 1..Len(potentialGroups) |-> i],
                        LAMBDA i : eval[i].valid /\ ~eval[i].threw
                                     /\ eval[i].totalGroupBid >= 0)
  IN [k \in 1..Len(kept) |->
        bidEvent(apt, potentialGroups[kept[k]], eval[kept[k]])]

\* the bids pushed on currentAptBids, in the order of potentialGroups
pushBids(apt, potentialGroups, eval) ==
  LET kept == SelectSeq([i \in 1..Len(potentialGroups) |-> i],
                        LAMBDA i : eval[i].valid /\ ~eval[i].threw
                                     /\ eval[i].totalGroupBid > 0)
  IN [k \in 1..Len(kept) |->
        bidEvent(apt, potentialGroups[kept[k]], eval[kept[k]])]

\* outcome of the member loops of one iteration: apt id -> outcomes
evaluateApartments(avail, potentialGroups, unassigned) ==
  [a \in Range(avail) |-> evaluateGroups(apartments[a], potentialGroups, unassigned)]

\* mutant of sortBids: the list is left in the order of collection
sortBidsUnsorted(bids) == bids

\* currentAptBids.sort((a, b) => b.totalGroupBid - a.totalGroupBid)
sortBids(bids) ==
  StableSortDesc(bids, LAMBDA a, b : a.totalGroupBid > b.totalGroupBid)

\* does some call of calculateAdjustedBid of this iteration throw
iterationThrows(evals) ==
  \E a \in DOMAIN evals : \E i \in DOMAIN evals[a] : evals[a][i].threw

\* bidsForApartments.set(apt.id, currentAptBids) for every apartment whose
\* list is not empty
setBids(avail, sorted) ==
  [a \in {x \in Range(avail) : Len(sorted[x]) > 0} |-> sorted[a]]

\* the map bidsForApartments of one iteration
collectAllBids(avail, potentialGroups, evals) ==
  setBids(avail, [a \in Range(avail) |->
                    sortBids(pushBids(apartments[a], potentialGroups, evals[a]))])

\* the loop over availableApartments for the positions lo..hi, keeping the
\* first apartment whose top bid is strictly the highest so far: st is
\* [best, highest]
RECURSIVE chooseBest(_, _, _, _, _)
chooseBest(st, avail, bids, lo, hi) ==
  IF lo > hi THEN st
  ELSE IF lo = hi
  THEN (IF avail[lo] \in DOMAIN bids
           /\ bids[avail[lo]][1].totalGroupBid > st.highest
        THEN [best |-> avail[lo],
              highest |-> bids[avail[lo]][1].totalGroupBid]
        ELSE st)
  ELSE CHOOSE out \in
         {chooseBest(left, avail, bids, (lo + hi) \div 2 + 1, hi) :
            left \in {chooseBest(st, avail, bids, lo, (lo + hi) \div 2)}} :
         TRUE

\* ------------------------------------------------- runMatching: the rounds
\* personPayment of a member of the winning group
personPayment(secondHighestTotalBidForApt, personIndividualAdjustedBid, winningTotalBid) ==
  Rat(secondHighestTotalBidForApt * personIndividualAdjustedBid, winningTotalBid)

\* mutant of memberPayment: the share is taken from the bid ceilings
memberPaymentByCeiling(topBidEvent, second, p) ==
  Rat(second * people[p].preferences.bidAmount,
      SumSeq([m \in 1..Len(topBidEvent.bidder.members) |->
                people[topBidEvent.bidder.members[m]].preferences.bidAmount]))

\* paymentsForWinningGroup[pObj.id] of the member p of the winning group
memberPayment(topBidEvent, second, p) ==
  personPayment(second, topBidEvent.individualAdjustedBids[p],
                topBidEvent.totalGroupBid)

\* mutant of secondHighestBid: the last bid of the list is taken
secondHighestBidLast(winningBidList) ==
  IF Len(winningBidList) > 1
  THEN winningBidList[Len(winningBidList)].totalGroupBid ELSE 0

\* secondHighestTotalBidForApt of a sorted bid list
secondHighestBid(winningBidList) ==
  IF Len(winningBidList) > 1 THEN winningBidList[2].totalGroupBid ELSE 0

\* the entries pushed on assignmentsLog for the winning bid of a round
logEntries(apt, topBidEvent, second) ==
  LET members == topBidEvent.bidder.members
  IN [m \in 1..Len(members) |->
        [apartment_name |-> apt.name,
         person_id |-> members[m],
         person_name |-> people[members[m]].name,
         expected_payment |-> memberPayment(topBidEvent, second, members[m]),
         adjusted_bid |-> topBidEvent.individualAdjustedBids[members[m]],
         group_winning_bid |-> topBidEvent.totalGroupBid,
         second_highest_bid_for_apt |-> second,
         group_members_in_winning_bid |-> topBidEvent.groupMembersNames]]

\* mutant of removeAssigned: only one member of the group is removed
removeAssignedOne(unassigned, idsOfAssignedPeople) ==
  SelectSeq(unassigned,
            LAMBDA p : p # (CHOOSE m \in idsOfAssignedPeople :
                              \A x \in idsOfAssignedPeople : m <= x))

\* mutant of removeAssigned: nobody is removed
removeAssignedNone(unassigned, idsOfAssignedPeople) == unassigned

\* unassignedPeople.filter(p => !idsOfAssignedPeople.has(p.id))
removeAssigned(unassigned, idsOfAssignedPeople) ==
  SelectSeq(unassigned, LAMBDA p : p \notin idsOfAssignedPeople)

\* availableApartments.filter(a => a.id !== bestAptToConsiderThisRound.id)
removeApartment(avail, aptId) ==
  SelectSeq(avail, LAMBDA a : a # aptId)

LoopCondition ==
  /\ Len(unassignedPeople) > 0
  /\ Len(availableApartments) > 0
  /\ iterationCount < MaxIterations

\* the state at the entry of a call of runMatching
Start ==
  /\ unassignedPeople = <<>>
  /\ availableApartments = <<>>
  /\ assignmentsLog = <<>>
  /\ iterationCount = 0
  /\ bidsForApartments = <<>>
  /\ bestAptToConsiderThisRound = 0
  /\ paymentsForWinningGroup = <<>>
  /\ lastStep = "none"
  /\ results = <<>>
  /\ warnings = <<>>

\* the store and the server after construction, no request received yet
StoreStart ==
  /\ storePeople = <<>>
  /\ currentPersonId = 1
  /\ submits = <<>>
  /\ responses = <<>>
  /\ storeApartments = <<>>
  /\ matchingResults = <<>>
  /\ returned = <<>>

Init ==
  /\ people \in {WithIds(l) : l \in DistinctSeqsUpTo(PersonPool, MaxPeople)}
  /\ apartments \in {WithIds(l) : l \in SeqsUpTo(AptPool, MaxApts)}
  /\ Start
  /\ pc = "start"
  /\ StoreStart

\* preparePersonForMatching reads preferences.sleepTime first: a TypeError
\* when the preferences of the person are null
preparePersonThrows(person) == IsNull(person.preferences)

\* the code before the loop: people.map(preparePersonForMatching) and the
\* copies of the two lists; an exception of the map leaves runMatching
PreparePeople ==
  /\ pc = "start"
  /\ IF \E i \in 1..Len(people) : preparePersonThrows(people[i])
     THEN /\ pc' = "failed"
          /\ UNCHANGED <<unassignedPeople, availableApartments>>
     ELSE /\ pc' = "loop"
          /\ unassignedPeople' = [i \in 1..Len(people) |-> i]
          /\ availableApartments' = [i \in 1..Len(apartments) |-> i]
  /\ UNCHANGED <<people, apartments, assignmentsLog, iterationCount,
                 bidsForApartments, bestAptToConsiderThisRound,
                 paymentsForWinningGroup, lastStep, results, warnings>>
  /\ UNCHANGED <<storeVars, returned>>

\* the while condition is false: the loop is left
LoopExit ==
  /\ pc = "loop"
  /\ ~LoopCondition
  /\ pc' = "convert"
  /\ UNCHANGED <<people, apartments, unassignedPeople, availableApartments,
                 assignmentsLog, iterationCount, bidsForApartments,
                 bestAptToConsiderThisRound, paymentsForWinningGroup,
                 lastStep, results, warnings>>
  /\ UNCHANGED <<storeVars, returned>>

\* an iteration that ends without touching the lists: how is "break",
\* "throw" or "continue"
EndIteration(how, bids, best) ==
  /\ lastStep' = how
  /\ bidsForApartments' = bids
  /\ bestAptToConsiderThisRound' = best
  /\ paymentsForWinningGroup' = <<>>
  /\ pc' = CASE how = "break" -> "convert"
             [] how = "throw" -> "failed"
             [] OTHER -> "loop"
  /\ UNCHANGED <<unassignedPeople, availableApartments, assignmentsLog>>

\* steps 3 to 5 of an iteration: assign the winning bid of the chosen
\* apartment
AssignBest(bids, best, topBidEvent, second) ==
  /\ bidsForApartments' = bids
  /\ bestAptToConsiderThisRound' = best
  /\ pc' = "loop"
  /\ IF topBidEvent.totalGroupBid > 0
     THEN /\ paymentsForWinningGroup' =
               [p \in Range(topBidEvent.bidder.members) |->
                  memberPayment(topBidEvent, second, p)]
          /\ assignmentsLog' = assignmentsLog
                                 \o logEntries(apartments[best], topBidEvent, second)
          /\ unassignedPeople' = removeAssigned(unassignedPeople,
                                                Range(topBidEvent.bidder.members))
          /\ availableApartments' = removeApartment(availableApartments, best)
          /\ lastStep' = "assigned"
     ELSE /\ paymentsForWinningGroup' = <<>>
          /\ availableApartments' = removeApartment(availableApartments, best)
          /\ lastStep' = "skip"
          /\ UNCHANGED <<unassignedPeople, assignmentsLog>>

\* the iteration once the bids are collected and the apartment is chosen
IterateOnBest(bids, best) ==
  IF best = 0 THEN EndIteration("break", bids, 0)
  ELSE IF best \notin DOMAIN bids \/ Len(bids[best]) = 0
  THEN EndIteration("continue", bids, best)
  ELSE AssignBest(bids, best, bids[best][1], secondHighestBid(bids[best]))

\* mutant of bestApartment: the first available apartment that has a bid
bestApartmentFirst(avail, bids) ==
  IF \E k \in 1..Len(avail) : avail[k] \in DOMAIN bids
  THEN avail[CHOOSE k \in 1..Len(avail) :
               /\ avail[k] \in DOMAIN bids
               /\ \A j \in 1..(k - 1) : avail[j] \notin DOMAIN bids]
  ELSE 0

\* bestAptToConsiderThisRound after the loop over availableApartments, 0
\* for null
bestApartment(avail, bids) ==
  chooseBest([best |-> 0, highest |-> -1], avail, bids, 1, Len(avail)).best

\* step 2 of an iteration: the apartment with the highest top bid
IterateOnBids(bids) ==
  IterateOnBest(bids, bestApartment(availableApartments, bids))

\* the loops over the apartments and the groups, once the adjusted bids of
\* the members are computed
IterateOnEvals(potentialGroups, evals) ==
  IF iterationThrows(evals) THEN EndIteration("throw", <<>>, 0)
  ELSE IterateOnBids(collectAllBids(availableApartments, potentialGroups, evals))

\* the iteration once the potential groups are generated
IterateOnGroups(potentialGroups) ==
  IF Len(potentialGroups) = 0 THEN EndIteration("break", <<>>, 0)
  ELSE IterateOnEvals(potentialGroups,
                      evaluateApartments(availableApartments, potentialGroups,
                                         unassignedPeople))

\* one iteration of the while loop of runMatching
Iterate ==
  /\ pc = "loop"
  /\ LoopCondition
  /\ iterationCount' = iterationCount + 1
  /\ UNCHANGED <<people, apartments, results, warnings>>
  /\ UNCHANGED <<storeVars, returned>>
  /\ IterateOnGroups(generatePotentialGroups(unassignedPeople))

\* ------------------------------------------- runMatching: the result list
\* apartments.find(a => a.name === name): position of the first apartment
\* of that name, 0 when there is none
findApartmentByName(name) ==
  IF \E i \in 1..Len(apartments) : apartments[i].name = name
  THEN CHOOSE i \in 1..Len(apartments) :
         /\ apartments[i].name = name
         /\ \A j \in 1..(i - 1) : apartments[j].name # name
  ELSE 0

\* body of assignmentsLog.forEach: resultList holds the values of
\* finalMatchingResultsMap in insertion order, one per apartment_name
addLogEntry(resultList, logEntry) ==
  LET known == {i \in 1..Len(resultList) :
                  resultList[i].apartmentName = logEntry.apartment_name}
      apt == findApartmentByName(logEntry.apartment_name)
      assigned == [id |-> logEntry.person_id, name |-> logEntry.person_name,
                   payment |-> logEntry.expected_payment]
  IN IF known # {}
     THEN LET i == CHOOSE i \in known : TRUE
          IN [resultList EXCEPT
                ![i].assignedPeople = Append(@, assigned),
                ![i].tenants = @ + 1,
                ![i].totalPayment = logEntry.group_winning_bid]
     ELSE IF apt = 0 THEN resultList
     ELSE Append(resultList,
            [apartmentId |-> apartments[apt].id,
             apartmentName |-> apartments[apt].name,
             assignedPeople |-> <<assigned>>,
             totalPayment |-> logEntry.group_winning_bid,
             tenants |-> 1,
             capacity |-> apartments[apt].numBedrooms])

\* assignmentsLog.forEach, for the entries at positions lo..hi
RECURSIVE convertLog(_, _, _, _)
convertLog(resultList, log, lo, hi) ==
  IF lo > hi THEN resultList
  ELSE IF lo = hi THEN addLogEntry(resultList, log[lo])
  ELSE CHOOSE out \in
         {convertLog(left, log, (lo + hi) \div 2 + 1, hi) :
            left \in {convertLog(resultList, log, lo, (lo + hi) \div 2)}} :
         TRUE

\* the console.warn calls of assignmentsLog.forEach: one for every entry
\* whose apartment_name is the name of no apartment of the input (such an
\* entry never gets a result, so that each of them warns)
convertWarnings(log) ==
  LET missing == SelectSeq(log, LAMBDA logEntry :
                                  findApartmentByName(logEntry.apartment_name) = 0)
  IN [k \in 1..Len(missing) |-> missing[k].apartment_name]

\* mutant of inputApartmentsAfterConvert: result.tenants++ is done on the
\* apartment found by name
inputApartmentsCounted(apts, log) ==
  [i \in 1..Len(apts) |->
     [apts[i] EXCEPT !.tenants =
        @ + (IF findApartmentByName(apts[i].name) = i
             THEN Len(SelectSeq(log, LAMBDA logEntry :
                                       logEntry.apartment_name = apts[i].name))
             ELSE 0)]]

\* the list apartments of the caller after assignmentsLog.forEach: result
\* is a new object literal, so that result.tenants++ and result.totalPayment
\* = ... write no field of an Apartment, and find does not change the list
inputApartmentsAfterConvert(apts, log) == apts

\* the code after the loop: build the MatchingResult list and return it
Convert ==
  /\ pc = "convert"
  /\ apartments' = inputApartmentsAfterConvert(apartments, assignmentsLog)
  /\ results' = convertLog(<<>>, assignmentsLog, 1, Len(assignmentsLog))
  /\ warnings' = warnings \o convertWarnings(assignmentsLog)
  /\ pc' = "done"
  /\ UNCHANGED <<people, unassignedPeople, availableApartments,
                 assignmentsLog, iterationCount, bidsForApartments,
                 bestAptToConsiderThisRound, paymentsForWinningGroup, lastStep>>
  /\ UNCHANGED <<storeVars, returned>>

Next == PreparePeople \/ Iterate \/ LoopExit \/ Convert

Spec == Init /\ [][Next]_vars

\* ------------------------------------------- a call that reaches the cap
\* One more person and one more apartment than the loop has iterations.
\* Solo(i) lives alone and bids 500 on the flat of exactly i sq. meters
\* (any other size costs it 1000, which makes its bid negative); Flat(i)
\* is a one-bedroom flat of i sq. meters.  The name <<"Solo", i>> stands
\* for the string "Solo i".
CapSize == MaxIterations + 1

Solo(i) == PersonOf(<<"Solo", i>>, FALSE,
             [BasePrefs EXCEPT !.bidAmount = 5, !.sqMeters = <<i, i>>,
                               !.sqMetersWorth = <<10>>])

Flat(i) == AptOf(<<"Flat", i>>, i, 1, FALSE, 0, FALSE)

CapInit ==
  /\ people = WithIds([i \in 1..CapSize |-> Solo(i)])
  /\ apartments = WithIds([i \in 1..CapSize |-> Flat(i)])
  /\ Start
  /\ pc = "start"
  /\ StoreStart

CapSpec == CapInit /\ [][Next]_vars

\* ============================================================== properties
\* the latest iteration recorded an assignment
Assigned == lastStep = "assigned"

\* winningBidListForChosenApt, topBidEvent and winningGroup of the latest
\* iteration (meaningful when Assigned)
winningBidListForChosenApt == bidsForApartments[bestAptToConsiderThisRound]
topBidOfRound == winningBidListForChosenApt[1]
winningGroupOfRound == topBidOfRound.bidder.members

\* what the winning group of the latest iteration is charged in total
RoundPaymentTotal ==
  RatSum([m \in 1..Len(winningGroupOfRound) |->
            paymentsForWinningGroup[winningGroupOfRound[m]]])

MaxOf(S) == CHOOSE m \in S : \A x \in S : m >= x

\* the second-highest total of a bid list of at least two bids, whatever
\* the order of the list: the highest total once one highest bid is set aside
SecondHighestOf(bidList) ==
  LET w == CHOOSE i \in 1..Len(bidList) :
             bidList[i].totalGroupBid
               = MaxOf({bidList[j].totalGroupBid : j \in 1..Len(bidList)})
  IN MaxOf({bidList[j].totalGroupBid : j \in (1..Len(bidList)) \ {w}})

\* the person ids of all returned results, in order
AssignedIdsOf(res) ==
  Flatten([r \in 1..Len(res) |->
             [k \in 1..Len(res[r].assignedPeople) |-> res[r].assignedPeople[k].id]])

NoDuplicates(ids) ==
  \A i \in 1..Len(ids) : \A j \in 1..Len(ids) : i # j => ids[i] # ids[j]

\* C1: when runMatching has returned, no person id occurs twice in the
\* assignedPeople lists of the results, neither inside one result nor in
\* two results.
C1_NoDoubleAssignment ==
  pc = "done" => NoDuplicates(AssignedIdsOf(results))

\* two results and at least three assigned people have been returned
C1_Witness ==
  /\ pc = "done"
  /\ Len(results) >= 2
  /\ Len(AssignedIdsOf(results)) >= 3

\* C2: every returned result has tenants <= capacity, also when several
\* apartments carry the same name.
C2_CapacityInvariant ==
  pc = "done" => \A r \in 1..Len(results) : results[r].tenants <= results[r].capacity

\* C3: in a round whose chosen unit received at least two bids, the sum of
\* the payments of the winning group is the second-highest total bid
\* collected for that unit in that round.
C3_SecondPrice ==
  (Assigned /\ Len(winningBidListForChosenApt) >= 2)
    => RatEq(RoundPaymentTotal, Rat(SecondHighestOf(winningBidListForChosenApt), 1))

\* two solo applicants with ceilings 500 and 300 compete for a unit: the
\* 500 applicant has won and pays 300
C3_Witness ==
  /\ Assigned
  /\ Len(winningBidListForChosenApt) = 2
  /\ Len(winningGroupOfRound) = 1
  /\ topBidOfRound.totalGroupBid = 5
  /\ winningBidListForChosenApt[2].totalGroupBid = 3
  /\ RatEq(paymentsForWinningGroup[winningGroupOfRound[1]], Rat(3, 1))

\* C4: in a round whose chosen unit received exactly one bid, the winning
\* group pays its own winning bid in total.
C4_FirstPriceFallback ==
  (Assigned /\ Len(winningBidListForChosenApt) = 1)
    => RatEq(RoundPaymentTotal, Rat(topBidOfRound.totalGroupBid, 1))

GroupCeilingSum ==
  SumSeq([m \in 1..Len(winningGroupOfRound) |->
            people[winningGroupOfRound[m]].preferences.bidAmount])

C7_PaymentTotalConsistency ==
  pc = "done" =>
    \A r \in 1..Len(results) :
      RatEq(RatSum([k \in 1..Len(results[r].assignedPeople) |->
                      results[r].assignedPeople[k].payment]),
            Rat(results[r].totalPayment, 1))

\* C8: an assigned group has at most maxSize members, maxSize being at most
\* maxRoommates + 1 of every member, and a group of several members has
\* only members who allow roommates.
C8_GroupFeasibility ==
  Assigned =>
    /\ Len(winningGroupOfRound) <= topBidOfRound.bidder.maxSize
    /\ \A p \in Range(winningGroupOfRound) :
         Len(winningGroupOfRound) <= MaxRoommatesOf(p) + 1
    /\ Len(winningGroupOfRound) > 1
         => \A p \in Range(winningGroupOfRound) : people[p].allowRoommates

\* a group of three has been assigned
C8_Witness ==
  /\ Assigned
  /\ Len(winningGroupOfRound) = 3

\* what a step of runMatching does to the lists and the iteration count
IterationProgress ==
  /\ (assignmentsLog' # assignmentsLog)
       => Len(unassignedPeople') < Len(unassignedPeople)
  /\ (iterationCount' # iterationCount /\ assignmentsLog' = assignmentsLog)
       => (pc' # "loop" \/ Len(availableApartments') < Len(availableApartments))
  /\ iterationCount' <= MaxIterations
  /\ pc' = pc
       => Len(unassignedPeople') + Len(availableApartments')
            < Len(unassignedPeople) + Len(availableApartments)

\* C10: an iteration that records an assignment shrinks the unassigned
\* pool, an iteration that records none leaves the loop or removes a unit,
\* the iteration count stays within the cap, and every step that stays in
\* the loop decreases the finite measure |unassigned| + |available|, so
\* that the run ends.
C10_Termination == [][IterationProgress]_vars

\* a run of at least two iterations has returned assignments
C10_Witness ==
  /\ pc = "done"
  /\ iterationCount >= 2
  /\ Len(assignmentsLog) >= 2

\* ------------------------------------- the store and submit-preferences
\* bodies of POST /api/submit-preferences; formSubmissionSchema rejects the
\* empty name
SubmitNames == {"", "Ann", "Bob"}

SubmitBodies ==
  [name : SubmitNames, allowRoommates : {TRUE}, encryptedData : {"e30="}]

\* Map.prototype.set on the people Map: the value of an existing key is
\* replaced in place, a new key is added at the end
mapSet(stored, person) ==
  IF \E i \in 1..Len(stored) : stored[i].id = person.id
  THEN [i \in 1..Len(stored) |->
          IF stored[i].id = person.id THEN person ELSE stored[i]]
  ELSE Append(stored, person)

\* MemStorage.getPersonByName: <<>> for undefined, else the first stored
\* person of that name
getPersonByName(stored, name) ==
  LET found == SelectSeq(stored, LAMBDA person : person.name = name)
  IN IF Len(found) = 0 THEN <<>> ELSE <<found[1]>>

\* A string that serves as an id is the list of its characters.
DigitChars == <<"0", "1", "2", "3", "4", "5", "6", "7", "8", "9">>

isDigit(c) == \E d \in 1..Len(DigitChars) : DigitChars[d] = c

digitValue(c) == (CHOOSE d \in 1..Len(DigitChars) : DigitChars[d] = c) - 1

\* Number.prototype.toString of a natural number
RECURSIVE toString(_)
toString(n) ==
  IF n < 10 THEN <<DigitChars[n + 1]>>
  ELSE toString(n \div 10) \o <<DigitChars[(n % 10) + 1]>>

\* the number read from the digits of s from position k on, acc being the
\* number read so far
RECURSIVE parseDigits(_, _, _)
parseDigits(s, k, acc) ==
  IF k > Len(s) \/ ~isDigit(s[k]) THEN acc
  ELSE parseDigits(s, k + 1, 10 * acc + digitValue(s[k]))

\* parseInt of a string without blanks and sign: the number written by
\* its leading digits, <<>> for NaN when it starts with no digit
parseInt(s) ==
  IF Len(s) = 0 \/ ~isDigit(s[1]) THEN <<>> ELSE <<parseDigits(s, 1, 0)>>

\* MemStorage.createPerson: the Person returned
newPerson(nextId, person) == [id |-> toString(nextId)] @@ person

\* MemStorage.createPerson: the people Map afterwards
createPerson(stored, nextId, person) ==
  mapSet(stored, newPerson(nextId, person))

\* the forEach of MemStorage.setPeople on the cleared Map, from position k
\* of the list on
RECURSIVE setAll(_, _, _)
setAll(stored, list, k) ==
  IF k > Len(list) THEN stored
  ELSE setAll(mapSet(stored, list[k]), list, k + 1)

\* mutant of nextPersonId: the number of people loaded, plus one
nextPersonIdByCount(list) == Len(list) + 1

\* MemStorage.setPeople: currentPersonId afterwards, maxId + 1
nextPersonId(list) ==
  LET idNums == {parseInt(list[i].id)[1] :
                   i \in {j \in 1..Len(list) : Len(parseInt(list[j].id)) > 0}}
  IN (CHOOSE maxId \in idNums \cup {0} :
        \A idNum \in idNums \cup {0} : maxId >= idNum) + 1

\* csvHandler.savePeople: Buffer.from(JSON.stringify(person.preferences))
\* throws a TypeError for a person that has no preferences
savePeopleThrows(list) ==
  \E i \in 1..Len(list) : "preferences" \notin DOMAIN list[i]

sendResponse(name, status) ==
  responses' = Append(responses, [name |-> name, status |-> status])

\* A handler of POST /api/submit-preferences is an async function: it runs
\* up to an await, and goes on from there in a later job of the event
\* loop, after whatever other handlers were ready before it.  Its record in
\* submits is [name, body, at, existingPerson, people]; at is the await it
\* stands at ("getPersonByName", "createPerson", "savePeople") or "end".
Handler(body, at, existingPerson, snapshot) ==
  [name |-> body.name, body |-> body, at |-> at,
   existingPerson |-> existingPerson, people |-> snapshot]

\* the request arrives: the body is parsed and storage.getPersonByName is
\* called, which looks the name up at once
SubmitReceive(body) ==
  /\ pc = "idle"
  /\ Len(submits) < MaxRequests
  /\ IF body.name = ""
     THEN /\ sendResponse(body.name, 400)
          /\ submits' = Append(submits, Handler(body, "end", <<>>, <<>>))
     ELSE /\ submits' = Append(submits,
                          Handler(body, "getPersonByName",
                                  getPersonByName(storePeople, body.name), <<>>))
          /\ UNCHANGED responses
  /\ UNCHANGED <<storePeople, currentPersonId>>
  /\ UNCHANGED <<engineVars, adminVars, returned>>

\* after await storage.getPersonByName: answer 409, or call
\* storage.createPerson, which writes the Map at once
SubmitCreate(h) ==
  /\ submits[h].at = "getPersonByName"
  /\ IF Len(submits[h].existingPerson) > 0
     THEN /\ sendResponse(submits[h].name, 409)
          /\ submits' = [submits EXCEPT ![h].at = "end"]
          /\ UNCHANGED <<storePeople, currentPersonId>>
     ELSE /\ storePeople' = createPerson(storePeople, currentPersonId,
                                         submits[h].body)
          /\ currentPersonId' = currentPersonId + 1
          /\ submits' = [submits EXCEPT ![h].at = "createPerson"]
          /\ UNCHANGED responses
  /\ UNCHANGED <<engineVars, adminVars, returned>>

\* after await storage.createPerson: storage.getPeople reads the Map, and
\* csvHandler.savePeople starts with a wait for the file system
SubmitSave(h) ==
  /\ submits[h].at = "createPerson"
  /\ submits' = [submits EXCEPT ![h].at = "savePeople",
                                ![h].people = storePeople]
  /\ UNCHANGED <<storePeople, currentPersonId, responses>>
  /\ UNCHANGED <<engineVars, adminVars, returned>>

\* the rest of csvHandler.savePeople and of the handler
SubmitSaved(h) ==
  /\ submits[h].at = "savePeople"
  /\ submits' = [submits EXCEPT ![h].at = "end"]
  /\ sendResponse(submits[h].name,
                  IF savePeopleThrows(submits[h].people) THEN 400 ELSE 200)
  /\ UNCHANGED <<storePeople, currentPersonId>>
  /\ UNCHANGED <<engineVars, adminVars, returned>>

StoreInit ==
  /\ people = <<>>
  /\ apartments = <<>>
  /\ Start
  /\ pc = "idle"
  /\ StoreStart

StoreNext ==
  \/ \E body \in SubmitBodies : SubmitReceive(body)
  \/ \E h \in 1..Len(submits) : SubmitCreate(h)
  \/ \E h \in 1..Len(submits) : SubmitSave(h)
  \/ \E h \in 1..Len(submits) : SubmitSaved(h)

StoreSpec == StoreInit /\ [][StoreNext]_vars

\* ============================================================ properties 2
\* some unassigned person has a positive adjusted bid for some available
\* apartment
PositiveBidRemains ==
  \E p \in Range(unassignedPeople) : \E a \in Range(availableApartments) :
    /\ ~adjustedBidThrows(people[p], apartments[a])
    /\ calculateAdjustedBid(people[p], apartments[a]) > 0

\* the loop was left at the iteration cap with work remaining
CapHit ==
  /\ pc = "done"
  /\ iterationCount = MaxIterations
  /\ PositiveBidRemains

\* C11: when the loop stops at the iteration cap while an unassigned person
\* still has a positive bid for an available apartment, every assignment
\* recorded so far is returned and a warning has been written.
C11_IterationCapWarning ==
  CapHit => /\ Len(AssignedIdsOf(results)) = Len(assignmentsLog)
            /\ Len(warnings) > 0

\* the apartments (ids) taken out of availableApartments: an apartment is
\* taken out by the round it wins
WonApartments ==
  {a \in 1..Len(apartments) : a \notin Range(availableApartments)}

\* C12: when runMatching has returned, every apartment that won a round has
\* exactly one result, found by its id; every result carries the id, the
\* name and the capacity of an apartment that won a round; and every
\* logged assignment is in some result.
C12_OneResultPerUnit ==
  pc = "done" =>
    /\ \A a \in WonApartments :
         Cardinality({r \in 1..Len(results) :
                        results[r].apartmentId = apartments[a].id}) = 1
    /\ \A r \in 1..Len(results) :
         \E a \in WonApartments :
           /\ results[r].apartmentId = apartments[a].id
           /\ results[r].apartmentName = apartments[a].name
           /\ results[r].capacity = apartments[a].numBedrooms
    /\ Len(AssignedIdsOf(results)) = Len(assignmentsLog)

\* the input holds a person without preferences, every other person is
\* one that calculateAdjustedBid accepts, and one of them has a positive
\* adjusted bid for an apartment of the input
OnlyMalformedProfiles ==
  /\ \E i \in 1..Len(people) : IsNull(people[i].preferences)
  /\ \A i \in 1..Len(people) :
       ~IsNull(people[i].preferences)
         => Len(people[i].preferences.windowDirections) = 0
  /\ \E i \in 1..Len(people) : \E a \in 1..Len(apartments) :
       /\ ~IsNull(people[i].preferences)
       /\ calculateAdjustedBid(people[i], apartments[a]) > 0

\* C13: a call whose input holds a person without decodable preferences
\* does not fail: the person is left out and the call goes on with the
\* others.
C13_MalformedNonFatal ==
  OnlyMalformedProfiles => pc # "failed"

StoredNames == {storePeople[i].name : i \in 1..Len(storePeople)}

NoTwoShareName(stored) ==
  \A i \in 1..Len(stored) : \A j \in 1..Len(stored) :
    i # j => stored[i].name # stored[j].name

\* what a step of the submit-preferences handlers does to the store
SubmitStep ==
  /\ NoTwoShareName(storePeople')
  /\ (Len(responses') > Len(responses)
        /\ responses'[Len(responses')].status = 409)
       => /\ storePeople' = storePeople
          /\ responses'[Len(responses')].name \in StoredNames
  /\ Len(storePeople') > Len(storePeople)
       => storePeople'[Len(storePeople')].name \notin StoredNames

\* C15: whatever the order and the interleaving of the submit-preferences
\* requests, no two stored people share a name; a request answered 409
\* names a stored person and creates nothing; a person is created only
\* under a name no stored person has.
C15_UniqueNamesOnSubmit == [][SubmitStep]_vars

\* C16: in a round that records an assignment, no bid collected in that
\* round, for any available apartment, is higher than the winning bid.
C16_GlobalBestPairing ==
  Assigned =>
    \A a \in DOMAIN bidsForApartments :
      \A k \in 1..Len(bidsForApartments[a]) :
        bidsForApartments[a][k].totalGroupBid <= topBidOfRound.totalGroupBid

\* the winning apartment comes after an apartment of the list whose top
\* bid was lower
C16_Witness ==
  /\ Assigned
  /\ \E a \in DOMAIN bidsForApartments :
       /\ a < bestAptToConsiderThisRound
       /\ bidsForApartments[a][1].totalGroupBid < topBidOfRound.totalGroupBid

\* C17: an apartment that wins a round while bedrooms stay free (tenants
\* plus the size of the winning group is below numBedrooms) is still
\* available after the round.
C17_AvailableUntilFull ==
  (Assigned
     /\ apartments[bestAptToConsiderThisRound].tenants + Len(winningGroupOfRound)
          < apartments[bestAptToConsiderThisRound].numBedrooms)
    => bestAptToConsiderThisRound \in Range(availableApartments)

\* C18: a bid is collected for a group and an apartment only if the group
\* is not larger than numBedrooms minus tenants of the apartment.
C18_EligibilityRespectsOccupancy ==
  \A a \in DOMAIN bidsForApartments :
    \A k \in 1..Len(bidsForApartments[a]) :
      Len(bidsForApartments[a][k].bidder.members)
        <= apartments[a].numBedrooms - apartments[a].tenants

\* C19: a group of several members is assigned only to an apartment that
\* allows roommates, and each of its members allows roommates.
C19_MutualSharingPermission ==
  (Assigned /\ Len(winningGroupOfRound) > 1)
    => /\ apartments[bestAptToConsiderThisRound].allowRoommates
       /\ \A p \in Range(winningGroupOfRound) : people[p].allowRoommates

\* a group of several members has been assigned in a round in which an
\* apartment of two bedrooms that does not allow roommates received bids,
\* and a person who does not allow roommates is in the input
C19_Witness ==
  /\ Assigned
  /\ Len(winningGroupOfRound) > 1
  /\ \E a \in DOMAIN bidsForApartments :
       ~apartments[a].allowRoommates /\ apartments[a].numBedrooms >= 2
  /\ \E p \in 1..Len(people) : ~people[p].allowRoommates

\* C20: only bids above 0 are collected, every logged assignment has a
\* winning bid above 0, no round meets a winning bid of 0 or less, and a
\* round without any bid ends the loop, after which the results hold every
\* logged assignment.
C20_OnlyPositiveBidsWin ==
  /\ \A a \in DOMAIN bidsForApartments :
       \A k \in 1..Len(bidsForApartments[a]) :
         bidsForApartments[a][k].totalGroupBid > 0
  /\ Assigned => topBidOfRound.totalGroupBid > 0
  /\ \A e \in 1..Len(assignmentsLog) : assignmentsLog[e].group_winning_bid > 0
  /\ lastStep # "skip"
  /\ lastStep = "break" => pc \in {"convert", "done"}
  /\ pc = "done" => Len(AssignedIdsOf(results)) = Len(assignmentsLog)

\* the loop has ended on a round without bids, after an assignment, while
\* an unassigned person has an adjusted bid of exactly 0 for an available
\* apartment
C20_Witness ==
  /\ pc = "done"
  /\ lastStep = "break"
  /\ Len(results) >= 1
  /\ \E p \in Range(unassignedPeople) : \E a \in Range(availableApartments) :
       /\ ~adjustedBidThrows(people[p], apartments[a])
       /\ calculateAdjustedBid(people[p], apartments[a]) = 0

\* --------------------------------------- setPeople and createPerson
\* The two methods of MemStorage called in any order: setPeople with a
\* list of at most MaxStored people read from people.csv, whose ids are
\* strings of the file, and createPerson while the next id is below
\* MaxPersonId.
IdPool == {<<"1">>, <<"2">>, <<"3">>, <<"0", "2">>, <<"2", "x">>, <<"x">>}

LoadedPeople == {[id |-> i] @@ Cat : i \in IdPool}

SetPeople(list) ==
  /\ pc = "idle"
  /\ storePeople' = setAll(<<>>, list, 1)
  /\ currentPersonId' = nextPersonId(list)
  /\ returned' = <<>>
  /\ UNCHANGED <<submits, responses, adminVars>>
  /\ UNCHANGED engineVars

CreatePerson(person) ==
  /\ pc = "idle"
  /\ currentPersonId < MaxPersonId
  /\ storePeople' = createPerson(storePeople, currentPersonId, person)
  /\ currentPersonId' = currentPersonId + 1
  /\ returned' = <<newPerson(currentPersonId, person)>>
  /\ UNCHANGED <<submits, responses, adminVars>>
  /\ UNCHANGED engineVars

MemNext ==
  \/ \E list \in SeqsUpTo(LoadedPeople, MaxStored) : SetPeople(list)
  \/ \E person \in {Ann, Bob} : CreatePerson(person)

MemSpec == StoreInit /\ [][MemNext]_vars

\* ------------------------------------- run-matching and assign-rooms
\* The two admin handlers of src/server/routes.ts, each run to its end
\* before the next request is taken.  The store holds people who have
\* preferences and apartments of different names without tenants.
AdminPersonPool == {Bob, Cat, Dan, Eve}

AdminAptPool == {Loft, Studio}

AdminInit ==
  /\ people = <<>>
  /\ apartments = <<>>
  /\ Start
  /\ pc = "idle"
  /\ storePeople \in {WithIds(l) : l \in DistinctSeqsUpTo(AdminPersonPool, MaxPeople)}
  /\ storeApartments \in {WithIds(l) : l \in DistinctSeqsUpTo(AdminAptPool, MaxApts)}
  /\ currentPersonId = Len(storePeople) + 1
  /\ submits = <<>>
  /\ responses = <<>>
  /\ matchingResults = <<>>
  /\ returned = <<>>

\* people.filter(person => !person.assignedRoom)
withoutRoom(stored) ==
  SelectSeq(stored, LAMBDA person : Len(person.assignedRoom) = 0)

\* POST /api/admin/run-matching up to the call of runMatching: the call
\* gets the stored people without a room and all stored apartments
RunMatchingCall ==
  /\ pc = "idle"
  /\ Len(withoutRoom(storePeople)) > 0
  /\ people' = withoutRoom(storePeople)
  /\ apartments' = storeApartments
  /\ unassignedPeople' = <<>>
  /\ availableApartments' = <<>>
  /\ assignmentsLog' = <<>>
  /\ iterationCount' = 0
  /\ bidsForApartments' = <<>>
  /\ bestAptToConsiderThisRound' = 0
  /\ paymentsForWinningGroup' = <<>>
  /\ lastStep' = "none"
  /\ results' = <<>>
  /\ warnings' = <<>>
  /\ pc' = "start"
  /\ UNCHANGED <<storeVars, returned>>

\* the results as the handler sees them: assignedPeople[k].id is the id
\* of the Person object, which the engine model knows by its position in
\* the list it was given
resultsWithStoreIds(res, given) ==
  [r \in 1..Len(res) |->
     [res[r] EXCEPT !.assignedPeople =
        [k \in 1..Len(res[r].assignedPeople) |->
           [res[r].assignedPeople[k] EXCEPT !.id = given[@].id]]]]

\* the rest of the run-matching handler: storage.saveMatchingResults, or
\* the catch block when runMatching threw
RunMatchingReturn ==
  /\ pc \in {"done", "failed"}
  /\ matchingResults' = IF pc = "done" THEN resultsWithStoreIds(results, people)
                        ELSE matchingResults
  /\ pc' = "idle"
  /\ UNCHANGED <<people, apartments, unassignedPeople, availableApartments,
                 assignmentsLog, iterationCount, bidsForApartments,
                 bestAptToConsiderThisRound, paymentsForWinningGroup,
                 lastStep, results, warnings>>
  /\ UNCHANGED <<storePeople, currentPersonId, submits, responses,
                 storeApartments, returned>>

\* the result and the assignedPeople entry that name the stored person,
\* <<>> when there is none; a later entry overwrites an earlier one
assignmentOf(res, id) ==
  LET hits == SelectSeq(
                Flatten([r \in 1..Len(res) |->
                           [k \in 1..Len(res[r].assignedPeople) |->
                              [room |-> res[r].apartmentName,
                               id |-> res[r].assignedPeople[k].id,
                               payment |-> res[r].assignedPeople[k].payment]]]),
                LAMBDA hit : hit.id = id)
  IN IF Len(hits) = 0 THEN <<>> ELSE <<hits[Len(hits)]>>

\* the loop of storage.updatePerson calls of assign-rooms
updatePeople(stored, res) ==
  [i \in 1..Len(stored) |->
     IF Len(assignmentOf(res, stored[i].id)) = 0 THEN stored[i]
     ELSE [stored[i] EXCEPT
             !.assignedRoom = <<assignmentOf(res, stored[i].id)[1].room>>,
             !.requiredPayment = <<assignmentOf(res, stored[i].id)[1].payment>>]]

\* the loop of storage.updateApartment calls of assign-rooms: tenants
\* becomes result.tenants of the last result of that apartment id
updateApartments(stored, res) ==
  [i \in 1..Len(stored) |->
     LET hits == SelectSeq(res, LAMBDA result : result.apartmentId = stored[i].id)
     IN IF Len(hits) = 0 THEN stored[i]
        ELSE [stored[i] EXCEPT
                !.tenants = hits[Len(hits)].tenants,
                !.allowRoommates = hits[Len(hits)].tenants < stored[i].numBedrooms]]

\* POST /api/admin/assign-rooms with saved results: the people and the
\* apartments are updated and saved, and the results are cleared unless
\* csvHandler.savePeople threw
AssignRooms ==
  /\ pc = "idle"
  /\ Len(matchingResults) > 0
  /\ storePeople' = updatePeople(storePeople, matchingResults)
  /\ storeApartments' = updateApartments(storeApartments, matchingResults)
  /\ matchingResults' = IF savePeopleThrows(storePeople') THEN matchingResults
                        ELSE <<>>
  /\ UNCHANGED <<currentPersonId, submits, responses, returned>>
  /\ UNCHANGED engineVars

AdminNext ==
  \/ RunMatchingCall
  \/ PreparePeople
  \/ Iterate
  \/ LoopExit
  \/ Convert
  \/ RunMatchingReturn
  \/ AssignRooms

AdminSpec == AdminInit /\ [][AdminNext]_vars

\* ------------------------------------------ calculateAdjustedBid on its own
\* The function is applied to one person and one apartment.  The person
\* wants every ranged attribute within 1..2 and gives the five attributes
\* the worths 1, 2, 4, 8 and 16, so that the sum of the deductions tells
\* which attributes were penalised; the apartment has every ranged
\* attribute in 0..MaxValue.
RangedPrefs ==
  [BasePrefs EXCEPT !.bidAmount = 40,
                    !.sqMeters = <<1, 2>>, !.sqMetersWorth = <<1>>,
                    !.numWindows = <<1, 2>>, !.numWindowsWorth = <<2>>,
                    !.totalWindowSize = <<1, 2>>, !.totalWindowSizeWorth = <<4>>,
                    !.numBedrooms = <<1, 2>>, !.numBedroomsWorth = <<8>>,
                    !.numBathrooms = <<1, 2>>, !.numBathroomsWorth = <<16>>]

\* Rae: the ranges only
Rae == PersonOf("Rae", TRUE, RangedPrefs)
\* Sam: the worth of the area is left out
Sam == PersonOf("Sam", TRUE, [RangedPrefs EXCEPT !.sqMetersWorth = <<>>])
\* Tia: wants a window to the north, worth 32
Tia == PersonOf("Tia", TRUE,
         [RangedPrefs EXCEPT !.windowDirections = <<"N">>,
                             !.windowDirectionsWorth = <<32>>])
\* Uma: wants a window to the north or to the south, worth 32
Uma == PersonOf("Uma", TRUE,
         [RangedPrefs EXCEPT !.windowDirections = <<"N", "S">>,
                             !.windowDirectionsWorth = <<32>>])

BidPersonPool == {Rae, Sam, Tia, Uma}

BidDirections == {<<>>, <<"N">>, <<"E">>, <<"S", "E">>}

BidAptPool ==
  {[AptOf("Unit", v[1], v[4], FALSE, 0, TRUE)
      EXCEPT !.numWindows = v[2], !.totalWindowSize = v[3],
             !.numBathrooms = v[5], !.windowDirections = d] :
     v \in [1..5 -> 0..MaxValue], d \in BidDirections}

BidInit ==
  /\ people \in {WithIds(<<p>>) : p \in BidPersonPool}
  /\ apartments \in {WithIds(<<a>>) : a \in BidAptPool}
  /\ Start
  /\ pc = "call"
  /\ StoreStart

\* calculateAdjustedBid(people[0], apartments[0], 1): what is returned is
\* [threw, value], value being meaningful when the call did not throw
CallCalculateAdjustedBid ==
  /\ pc = "call"
  /\ returned' =
       IF adjustedBidThrows(people[1], apartments[1])
       THEN <<[threw |-> TRUE, value |-> 0]>>
       ELSE <<[threw |-> FALSE,
               value |-> calculateAdjustedBid(people[1], apartments[1])]>>
  /\ pc' = "returned"
  /\ UNCHANGED <<people, apartments, unassignedPeople, availableApartments,
                 assignmentsLog, iterationCount, bidsForApartments,
                 bestAptToConsiderThisRound, paymentsForWinningGroup,
                 lastStep, results, warnings>>
  /\ UNCHANGED storeVars

BidNext == CallCalculateAdjustedBid

BidSpec == BidInit /\ [][BidNext]_vars

\* --------------------------------------- generatePotentialGroups on its own
\* The function is applied to a list of decoded people, all of them
\* unassigned: the people of the pool whose preferences are an object.
GroupPool == {person \in PersonPool : ~IsNull(person.preferences)}

GroupInit ==
  /\ people \in {WithIds(l) : l \in DistinctSeqsUpTo(GroupPool, MaxPeople)}
  /\ apartments = <<>>
  /\ Start
  /\ pc = "call"
  /\ StoreStart

\* generatePotentialGroups(decodedPeople)
CallGeneratePotentialGroups ==
  /\ pc = "call"
  /\ returned' = <<generatePotentialGroups([i \in 1..Len(people) |-> i])>>
  /\ pc' = "returned"
  /\ UNCHANGED <<people, apartments, unassignedPeople, availableApartments,
                 assignmentsLog, iterationCount, bidsForApartments,
                 bestAptToConsiderThisRound, paymentsForWinningGroup,
                 lastStep, results, warnings>>
  /\ UNCHANGED storeVars

GroupNext == CallGeneratePotentialGroups

GroupSpec == GroupInit /\ [][GroupNext]_vars

\* ---------------------------------- calculateSocialCompatibility on its own
\* The function is applied to two decoded people whose cleanliness and
\* quietness are left out, 0, or 30 and 40: the distances are 0, 0.3, 0.4
\* and 0.5, all of them exact roots.
ScorePool ==
  {PersonOf("Pat", TRUE, [BasePrefs EXCEPT !.cleanliness = c, !.quietness = q]) :
     c \in {<<>>, <<0>>, <<30>>}, q \in {<<>>, <<0>>, <<40>>}}

ScoreInit ==
  /\ people \in {WithIds(<<a, b>>) : a \in ScorePool, b \in ScorePool}
  /\ apartments = <<>>
  /\ Start
  /\ pc = "call"
  /\ StoreStart

\* calculateSocialCompatibility(decodedPeople[0], decodedPeople[1])
CallCalculateSocialCompatibility ==
  /\ pc = "call"
  /\ returned' = <<calculateSocialCompatibility(1, 2)>>
  /\ pc' = "returned"
  /\ UNCHANGED <<people, apartments, unassignedPeople, availableApartments,
                 assignmentsLog, iterationCount, bidsForApartments,
                 bestAptToConsiderThisRound, paymentsForWinningGroup,
                 lastStep, results, warnings>>
  /\ UNCHANGED storeVars

ScoreNext == CallCalculateSocialCompatibility

ScoreSpec == ScoreInit /\ [][ScoreNext]_vars

\* ============================================================ properties 3
\* the sum of the adjusted values of the members of a group for an
\* apartment, floored at 0 for the group as a whole
ClampedSum(group, apt) ==
  LET total == SumSeq([m \in 1..Len(group.members) |->
                         calculateAdjustedBid(people[group.members[m]], apt)])
  IN IF total < 0 THEN 0 ELSE total

\* the total of the bid collected for the group and the apartment (id) in
\* the map bids, 0 when no bid was collected for them
CollectedBid(bids, a, group) ==
  IF a \in DOMAIN bids
       /\ \E k \in 1..Len(bids[a]) : bids[a][k].bidder.members = group.members
  THEN bids[a][CHOOSE k \in 1..Len(bids[a]) :
                 bids[a][k].bidder.members = group.members].totalGroupBid
  ELSE 0

\* every eligible pair of the iteration has the clamped sum as its bid
ClampedSumCollected(potentialGroups, bids) ==
  \A a \in Range(availableApartments) :
    \A i \in 1..Len(potentialGroups) :
      reachesBid(potentialGroups[i], apartments[a], unassignedPeople)
        => CollectedBid(bids, a, potentialGroups[i])
             = ClampedSum(potentialGroups[i], apartments[a])

GroupBidStep ==
  (pc = "loop" /\ LoopCondition /\ pc' # "failed")
    => ClampedSumCollected(generatePotentialGroups(unassignedPeople),
                           bidsForApartments')

\* C21: in every iteration in which calculateAdjustedBid returns for every
\* member, the bid of every eligible (apartment, group) pair is the sum of
\* the adjusted values of the members floored at 0, a member with a
\* negative value included in the sum.
C21_GroupBidIsClampedSum == [][GroupBidStep]_vars

\* the ranged attributes of an apartment, each with the fields of the
\* preferences that hold its range and its worth
RangedAttributes ==
  << <<"sqMeters", "sqMetersWorth">>, <<"numWindows", "numWindowsWorth">>,
     <<"totalWindowSize", "totalWindowSizeWorth">>,
     <<"numBedrooms", "numBedroomsWorth">>,
     <<"numBathrooms", "numBathroomsWorth">> >>

\* the attribute (position in RangedAttributes) of the apartment lies
\* strictly outside the range of the person
StrictlyOutside(person, apartment, k) ==
  \/ apartment[RangedAttributes[k][1]] < person.preferences[RangedAttributes[k][1]][1]
  \/ apartment[RangedAttributes[k][1]] > person.preferences[RangedAttributes[k][1]][2]

\* the worths of the ranged attributes that lie strictly outside, added up
RangedPenalty(person, apartment) ==
  SumSeq([k \in 1..Len(RangedAttributes) |->
            IF StrictlyOutside(person, apartment, k)
            THEN OrZero(person.preferences[RangedAttributes[k][2]]) ELSE 0])

\* the penalty of the any-overlap rule on window directions
DirectionPenalty(person, apartment) ==
  IF Range(person.preferences.windowDirections) # {}
       /\ Range(person.preferences.windowDirections)
            \cap Range(apartment.windowDirections) = {}
  THEN OrZero(person.preferences.windowDirectionsWorth) ELSE 0

\* C22: whenever calculateAdjustedBid returns a number for a person who
\* asks for no amenity, the number is bidAmount minus the penalty of the
\* window directions minus the worths of exactly the ranged attributes of
\* the apartment that are strictly below min or strictly above max.
C22_RangedPenalty ==
  (pc = "returned" /\ ~returned[1].threw)
    => returned[1].value
         = people[1].preferences.bidAmount
             - DirectionPenalty(people[1], apartments[1])
             - RangedPenalty(people[1], apartments[1])

\* a number was returned for an apartment whose area equals min, whose
\* window count equals max, whose window size is below min and whose
\* bedrooms are above max: only the last two are deducted
C22_Witness ==
  /\ pc = "returned"
  /\ ~returned[1].threw
  /\ apartments[1].sqMeters = people[1].preferences.sqMeters[1]
  /\ apartments[1].numWindows = people[1].preferences.numWindows[2]
  /\ apartments[1].totalWindowSize < people[1].preferences.totalWindowSize[1]
  /\ apartments[1].numBedrooms > people[1].preferences.numBedrooms[2]
  /\ apartments[1].numBathrooms = 1
  /\ returned[1].value = people[1].preferences.bidAmount - 4 - 8

\* C23: for every person and every apartment whose windowDirections is a
\* list of strings, calculateAdjustedBid returns a number, and the number
\* carries the deduction of windowDirectionsWorth exactly when the person
\* desires some direction and none of them is a direction of the apartment.
C23_DirectionAnyOverlap ==
  pc = "returned"
    => /\ ~returned[1].threw
       /\ returned[1].value
            = people[1].preferences.bidAmount
                - RangedPenalty(people[1], apartments[1])
                - DirectionPenalty(people[1], apartments[1])

\* the positions of the returned list that hold a group of exactly these
\* people
GroupsOf(groups, ids) ==
  {i \in 1..Len(groups) : Range(groups[i].members) = ids}

\* C24: the list returned by generatePotentialGroups holds, for every
\* person of the pool, exactly one group of that person alone, with
\* compatibility 100 and maxSize 1, whatever allowRoommates and
\* maxRoommates of the person are.
C24_SingletonsAlwaysOffered ==
  pc = "returned" =>
    \A p \in 1..Len(people) :
      /\ Cardinality(GroupsOf(returned[1], {p})) = 1
      /\ \A i \in GroupsOf(returned[1], {p}) :
           /\ returned[1][i].members = <<p>>
           /\ RatEq(returned[1][i].compatibility, Rat(100 * SocialScale, 1))
           /\ returned[1][i].maxSize = 1

\* groups were returned for a pool that holds a person who does not allow
\* roommates and has no maxRoommates, next to two people who share a group
C24_Witness ==
  /\ pc = "returned"
  /\ \E p \in 1..Len(people) :
       /\ ~people[p].allowRoommates
       /\ Len(people[p].preferences.maxRoommates) = 0
       /\ GroupsOf(returned[1], {p}) # {}
  /\ \E i \in 1..Len(returned[1]) : Len(returned[1][i].members) = 2

\* C25: the list returned by generatePotentialGroups holds at most one
\* group per set of member ids, and the compatibility never increases
\* along the list.
C25_GroupDeduplication ==
  pc = "returned" =>
    /\ \A i \in 1..Len(returned[1]) : \A j \in 1..Len(returned[1]) :
         i # j => Range(returned[1][i].members) # Range(returned[1][j].members)
    /\ \A i \in 1..Len(returned[1]) : \A j \in 1..Len(returned[1]) :
         i < j => RatLeq(returned[1][j].compatibility,
                         returned[1][i].compatibility)

\* the returned list holds two pairs of different compatibility, and a
\* pair whose two members both take a roommate, which is therefore built
\* from either of them as the anchor
C25_Witness ==
  /\ pc = "returned"
  /\ \E i \in 1..Len(returned[1]) : \E j \in 1..Len(returned[1]) :
       /\ i < j
       /\ Len(returned[1][i].members) = 2
       /\ Len(returned[1][j].members) = 2
       /\ RatGt(returned[1][i].compatibility, returned[1][j].compatibility)
       /\ \A m \in 1..2 : MaxRoommatesOf(returned[1][i].members[m]) >= 1

\* the minimum acceptable compatibility of the specification: 60 on the
\* scale 0..100, in the units of the score
AcceptableScore == 60 * SocialScale

\* C26: the pair {p, q} is in the returned list if and only if both allow
\* roommates, both have maxRoommates >= 1 and their score is at least 60;
\* a returned pair has maxSize = min(maxRoommates) + 1.
C26_PairGroups ==
  pc = "returned" =>
    \A p \in 1..Len(people) : \A q \in 1..Len(people) :
      p < q =>
        /\ GroupsOf(returned[1], {p, q}) # {}
             <=> /\ people[p].allowRoommates /\ people[q].allowRoommates
                 /\ MaxRoommatesOf(p) >= 1 /\ MaxRoommatesOf(q) >= 1
                 /\ calculateSocialCompatibility(p, q) >= AcceptableScore
        /\ \A i \in GroupsOf(returned[1], {p, q}) :
             returned[1][i].maxSize
               = (IF MaxRoommatesOf(p) < MaxRoommatesOf(q)
                  THEN MaxRoommatesOf(p) ELSE MaxRoommatesOf(q)) + 1

\* C27: every returned group of three or more members has at most five
\* members, each with maxRoommates >= size - 1, and every two of its
\* members have a score of at least 60.
C27_LargerGroups ==
  pc = "returned" =>
    \A i \in 1..Len(returned[1]) :
      Len(returned[1][i].members) >= 3 =>
        /\ Len(returned[1][i].members) <= 5
        /\ \A p \in Range(returned[1][i].members) :
             MaxRoommatesOf(p) >= Len(returned[1][i].members) - 1
        /\ \A p \in Range(returned[1][i].members) :
             \A q \in Range(returned[1][i].members) :
               p # q => calculateSocialCompatibility(p, q) >= AcceptableScore

\* the interpersonal attributes
SocialAttributes ==
  {"cleanliness", "quietness", "guests", "personalSpace", "sleepTime", "wakeTime"}

\* the attributes present on both profiles
CommonAttributes(a, b) ==
  {k \in SocialAttributes :
     Len(a.preferences[k]) > 0 /\ Len(b.preferences[k]) > 0}

\* C28: the score of two people is the same in both orders and lies in
\* 0..100, and it is 0 when no attribute is present on both profiles.
C28_MissingAttributesSkipped ==
  pc = "returned" =>
    /\ returned[1] = calculateSocialCompatibility(2, 1)
    /\ returned[1] >= 0
    /\ returned[1] <= 100 * SocialScale
    /\ CommonAttributes(people[1], people[2]) = {} => returned[1] = 0

\* the stored people whose assignedRoom is the name of the apartment
TenantsOf(apartment) ==
  {i \in 1..Len(storePeople) : storePeople[i].assignedRoom = <<apartment.name>>}

\* C29: between two admin requests every stored apartment has tenants <=
\* numBedrooms, and its tenants count is the number of stored people
\* whose assignedRoom is that apartment.
C29_CapacityAcrossRuns ==
  pc = "idle" =>
    \A a \in 1..Len(storeApartments) :
      /\ storeApartments[a].tenants <= storeApartments[a].numBedrooms
      /\ storeApartments[a].tenants = Cardinality(TenantsOf(storeApartments[a]))

\* the ids of the stored people
StoredIds == {storePeople[i].id : i \in 1..Len(storePeople)}

\* what a call of createPerson does to the store: the person returned
\* has an id that no stored person had, and every stored person stays
CreateStep ==
  (Len(returned') = 1 /\ currentPersonId' # currentPersonId)
    => /\ returned'[1].id \notin StoredIds
       /\ Len(storePeople') = Len(storePeople) + 1
       /\ \A i \in 1..Len(storePeople) : storePeople'[i] = storePeople[i]
       /\ storePeople'[Len(storePeople')] = returned'[1]

\* C30: after any sequence of setPeople and createPerson calls, the
\* person returned by createPerson has an id different from every id
\* stored before the call, and no stored person is replaced by the call.
C30_UniquePersonIds == [][CreateStep]_vars

\* createPerson has returned the id "3" after setPeople had loaded the
\* ids "1" and "2"
C30_Witness ==
  /\ Len(storePeople) = 3
  /\ storePeople[1].id = <<"1">>
  /\ storePeople[2].id = <<"2">>
  /\ Len(returned) = 1
  /\ returned[1].id = <<"3">>
  /\ storePeople[3] = returned[1]

====
